---- MODULE Spec2Model ----
(***************************************************************************)
(* A model of src/app/dashboard.py, the Streamlit script of the stock      *)
(* sentiment dashboard.  The script is re-executed top to bottom on every  *)
(* page load and slider move; the only state that survives a run is the    *)
(* st.cache_data cache of the four fetchers.                               *)
(*                                                                         *)
(* Time is counted in seconds.  A data frame is the sequence of its rows,  *)
(* a row is [ts |-> instant, v |-> value].  Python values are tagged       *)
(* records (PyInt, PyStr, PyNaN, PyNone) so that "N/A", NaN and numbers    *)
(* can be told apart the way the code tells them apart.  Floating point    *)
(* closes are held in tenths (14.9 is 149).                                *)
(*                                                                         *)
(* Four specifications:                                                    *)
(*   SpecStartup  lines 9-19 as written (the prelude of every run): line   *)
(*                18 raises, so as written no run gets past it;            *)
(*   Spec         lines 104-212 run after run, with the cache, from the    *)
(*                state the rest of the file is written against (the       *)
(*                names start_date, fred_api_key and twelvedata_api_key    *)
(*                bound to the values lines 12-19 are written to give);    *)
(*   SpecUnit     the filter (lines 139-143) and sentiment_score_fgi       *)
(*                (line 151) started from arbitrary inputs;                *)
(*   SpecVix      Spec, and lines 187-212 started from arbitrary closes.   *)
(***************************************************************************)
EXTENDS Integers, Sequences, FiniteSets, TLC

VARIABLES
    pc,                 \* position in the script: "l12", ..., "done", "raised"
    raised_line,        \* line of the uncaught exception, 0 when none
    now,                \* wall clock, seconds
    env,                \* os.environ: the two credentials, PyStr or PyNone
    start_date_raw,     \* line 12
    today,              \* line 13
    start_date,         \* line 14 (a calendar day)
    twelvedata_api_key, \* line 18
    fred_api_key,       \* line 19
    cache,              \* st.cache_data: fetcher -> entry
    reqs,               \* requests.get calls of this run, per fetcher
    vix_params,         \* params of the last get_vix_data request of this run
    answer,             \* the response to the last request of this run
    btc_data,           \* line 105, then 140
    vix_data,           \* line 106, then 141
    msci_data,          \* line 107, then 142
    fgi_df,             \* line 108, then 143
    crypto_fgi,         \* line 110
    crypto_fgi_prev,    \* line 111
    day_range,          \* line 138, the slider's value
    start_display_date, \* line 139
    score_val,          \* line 151
    score_label,        \* line 151
    vix_arg,            \* argument of the call of sentiment_score_vix, line 188
    vix_sentiment,      \* line 188
    ui                  \* elements rendered by this run, in order

vars == <<pc, raised_line, now, env, start_date_raw, today, start_date,
          twelvedata_api_key, fred_api_key, cache, reqs, vix_params,
          answer, btc_data, vix_data, msci_data, fgi_df, crypto_fgi, crypto_fgi_prev,
          day_range, start_display_date, score_val, score_label, vix_arg,
          vix_sentiment, ui>>

----------------------------------------------------------------------------
(* Program constants *)

TTL == 43200
LOOKBACK_DAYS == 180
SLIDER_MIN == 7
SLIDER_MAX == 180
SLIDER_DEFAULT == 180
FGI_EXTREME_FEAR == 25
FGI_FEAR == 50
FGI_GREED == 75
VIX_CALM == 15
VIX_ELEVATED == 25
SECONDS_PER_DAY == 24 * 3600

(* Bounds of the model *)

MaxTicks == 3       \* the clock advances at most this many half-TTL steps
MaxRows == 2        \* rows of a probe series in SpecUnit
MaxFgi == 110       \* sentiment_score_fgi is applied to -MaxFgi..MaxFgi
StartupHours == 23  \* SpecStartup starts at T0 + 0..StartupHours hours
MaxVix == 400       \* SpecVix classifies the closes 0.0 .. MaxVix/10

----------------------------------------------------------------------------
(* Python values *)

PyInt(n) == [tag |-> "int", i |-> n, s |-> ""]
PyStr(x) == [tag |-> "str", i |-> 0, s |-> x]
PyNaN == [tag |-> "nan", i |-> 0, s |-> ""]
PyNone == [tag |-> "None", i |-> 0, s |-> ""]
NA == PyStr("N/A")

Tenths(n) == n * 10

Days(n) == n * SECONDS_PER_DAY

Min(a, b) == IF a <= b THEN a ELSE b
Max(a, b) == IF a >= b THEN a ELSE b

(* strftime('%Y-%m-%d'): the calendar day of an instant *)
DateOf(t) == t \div SECONDS_PER_DAY

(* pd.to_datetime of a 'YYYY-MM-DD' string: midnight of that day *)
MidnightOf(d) == d * SECONDS_PER_DAY

(* int(str): the decimal numerals the model uses; anything else raises *)
IntOfStr ==
    ("20" :> 20) @@ ("24" :> 24) @@ ("25" :> 25) @@ ("40" :> 40) @@
    ("55" :> 55) @@ ("75" :> 75) @@ ("80" :> 80)

IntRaises(x) == ~(x.tag = "int" \/ (x.tag = "str" /\ x.s \in DOMAIN IntOfStr))

int(x) == IF x.tag = "int" THEN x.i ELSE IntOfStr[x.s]

(* pd.to_numeric(errors='coerce'): a decimal string becomes its number (in *)
(* tenths here), anything else becomes NaN                                 *)
TenthsOfStr ==
    ("14.9" :> 149) @@ ("15" :> 150) @@ ("24.9" :> 249) @@ ("25" :> 250) @@
    ("50.1" :> 501)

to_numeric(x) ==
    IF x.tag = "str" /\ x.s \in DOMAIN TenthsOfStr THEN PyInt(TenthsOfStr[x.s])
    ELSE IF x.tag = "int" THEN x
    ELSE PyNaN

----------------------------------------------------------------------------
(* Sequences *)

Reversed(s) == [i \in 1..Len(s) |-> s[Len(s) + 1 - i]]

RECURSIVE InsertByTs(_, _)
InsertByTs(row, s) ==
    IF s = <<>> THEN <<row>>
    ELSE IF row.ts < Head(s).ts THEN <<row>> \o s
    ELSE <<Head(s)>> \o InsertByTs(row, Tail(s))

(* DataFrame.sort_index(): ascending by index, rows of equal index keep    *)
(* their order                                                             *)
RECURSIVE sort_index(_)
sort_index(s) ==
    IF s = <<>> THEN <<>>
    ELSE InsertByTs(s[Len(s)], sort_index(SubSeq(s, 1, Len(s) - 1)))

NotNaN(row) == row.v.tag /= "nan"

(* DataFrame.dropna() *)
dropna(s) == SelectSeq(s, NotNaN)

----------------------------------------------------------------------------
(* The four fetchers, lines 24-102.  A response r of the endpoint is       *)
(*   [kind |-> "transport"   requests.get raised,                          *)
(*             "status"      raise_for_status raised,                      *)
(*             "badjson"     r.json() raised,                              *)
(*             "ok",                                                       *)
(*    haskey |-> the expected key is in the JSON object,                   *)
(*    rows |-> the list under that key, in the order the endpoint sent].   *)
(* A fetcher's outcome is [df, warned, raised]: the frame it returns, the  *)
(* st.warning it emitted, and whether an exception left the function.      *)

Fetchers == {"btc", "vix", "msci", "fgi"}

Returned(df) == [df |-> df, warned |-> FALSE, raised |-> FALSE]

(* the except branch: st.warning(...) and an empty frame *)
Failed == [df |-> <<>>, warned |-> TRUE, raised |-> FALSE]

Propagated == [df |-> <<>>, warned |-> FALSE, raised |-> TRUE]

RequestFails(r) == r.kind /= "ok"

get_bitcoin_data(r) ==
    IF RequestFails(r) \/ ~r.haskey THEN Failed
    ELSE Returned([i \in 1..Len(r.rows) |->
                      [ts |-> r.rows[i].ts, v |-> r.rows[i].v]])

get_vix_data_keepna(r) ==
    IF RequestFails(r) \/ ~r.haskey THEN Failed
    ELSE IF r.rows = <<>> THEN Failed
    ELSE Returned([i \in 1..Len(r.rows) |->
                      [ts |-> MidnightOf(r.rows[i].ts),
                       v |-> to_numeric(r.rows[i].v)]])

(* pd.DataFrame([]) has no 'date' column: line 54 raises KeyError *)
get_vix_data(r) ==
    IF RequestFails(r) \/ ~r.haskey THEN Failed
    ELSE IF r.rows = <<>> THEN Failed
    ELSE Returned(dropna([i \in 1..Len(r.rows) |->
                             [ts |-> MidnightOf(r.rows[i].ts),
                              v |-> to_numeric(r.rows[i].v)]]))

get_msci_data_nokey_propagates(r) ==
    IF RequestFails(r) THEN Failed
    ELSE IF ~r.haskey THEN Propagated
    ELSE IF r.rows = <<>> THEN Failed
    ELSE Returned(sort_index([i \in 1..Len(r.rows) |->
                                 [ts |-> MidnightOf(r.rows[i].ts),
                                  v |-> to_numeric(r.rows[i].v)]]))

(* line 78 raises ValueError inside the try; pd.DataFrame([]) has no       *)
(* 'datetime' column: line 82 raises KeyError; no dropna                   *)
get_msci_data(r) ==
    IF RequestFails(r) \/ ~r.haskey THEN Failed
    ELSE IF r.rows = <<>> THEN Failed
    ELSE Returned(sort_index([i \in 1..Len(r.rows) |->
                                 [ts |-> MidnightOf(r.rows[i].ts),
                                  v |-> to_numeric(r.rows[i].v)]]))

(* int(day['value']) raises on a malformed value: the whole fetch fails *)
get_fgi_history(r) ==
    IF RequestFails(r) \/ ~r.haskey THEN Failed
    ELSE IF \E i \in 1..Len(r.rows) : IntRaises(r.rows[i].v) THEN Failed
    ELSE Returned(Reversed([i \in 1..Len(r.rows) |->
                               [ts |-> r.rows[i].ts,
                                v |-> PyInt(int(r.rows[i].v))]]))

Fetch(f, r) ==
    CASE f = "btc" -> get_bitcoin_data(r)
      [] f = "vix" -> get_vix_data(r)
      [] f = "msci" -> get_msci_data(r)
      [] f = "fgi" -> get_fgi_history(r)

----------------------------------------------------------------------------
(* The endpoints.  T0 is the instant of the first run; the rows the        *)
(* endpoints send are dated DayOld (inside the 180-day window only) and    *)
(* DayNew (inside every window the slider can select).                     *)

T0 == Days(LOOKBACK_DAYS + 20)
TickStep == TTL \div 2
Horizon == T0 + MaxTicks * TickStep

DayOld == DateOf(T0) - 100
DayNew == DateOf(T0) - 5

Raw(ts, v) == [ts |-> ts, v |-> v]

(* CoinGecko: [ms, price] pairs, oldest first (the instant is kept in seconds) *)
BtcRowsets ==
    { <<>>,
      <<Raw(MidnightOf(DayOld), PyInt(50000))>>,
      <<Raw(MidnightOf(DayOld), PyInt(50000)), Raw(MidnightOf(DayNew), PyInt(60000))>> }

(* FRED: date and value strings, oldest first; "." stands for a missing value *)
VixRowsets ==
    { <<>>,
      <<Raw(DayNew, PyStr("14.9"))>>,
      <<Raw(DayNew, PyStr("15"))>>,
      <<Raw(DayNew, PyStr("24.9"))>>,
      <<Raw(DayNew, PyStr("25"))>>,
      <<Raw(DayNew, PyStr("."))>>,
      <<Raw(DayOld, PyStr("25")), Raw(DayNew, PyStr("."))>> }

(* Twelve Data: datetime and close strings, newest first *)
MsciRowsets ==
    { <<>>,
      <<Raw(DayNew, PyStr("50.1"))>>,
      <<Raw(DayNew, PyStr("50.1")), Raw(DayOld, PyStr("25"))>>,
      <<Raw(DayNew, PyStr(""))>> }

(* alternative.me: timestamp (seconds) and value strings, newest first *)
FgiRowsets ==
    { <<>>,
      <<Raw(MidnightOf(DayNew), PyStr("55"))>>,
      <<Raw(MidnightOf(DayNew), PyStr("55")), Raw(MidnightOf(DayOld), PyStr("40"))>>,
      <<Raw(MidnightOf(DayOld + 1), PyStr("24")), Raw(MidnightOf(DayOld), PyStr("75"))>>,
      <<Raw(MidnightOf(DayNew), PyStr("55")), Raw(MidnightOf(DayNew - 1), PyStr("40")),
        Raw(MidnightOf(DayOld), PyStr("80"))>>,
      <<Raw(MidnightOf(DayNew), PyStr("n/a"))>> }

Rowsets(f) ==
    CASE f = "btc" -> BtcRowsets
      [] f = "vix" -> VixRowsets
      [] f = "msci" -> MsciRowsets
      [] f = "fgi" -> FgiRowsets

Errors ==
    { [kind |-> k, haskey |-> FALSE, rows |-> <<>>] : k \in {"transport", "status", "badjson"} }
    \cup { [kind |-> "ok", haskey |-> FALSE, rows |-> <<>>] }

(* What an endpoint can answer.  A request without its credential is       *)
(* refused: FRED answers 400, Twelve Data answers an error object that has *)
(* no "values" key.                                                        *)
Responses(f, key) ==
    IF key.tag = "None" THEN Errors
    ELSE Errors \cup { [kind |-> "ok", haskey |-> TRUE, rows |-> rs] : rs \in Rowsets(f) }

Credential(f) ==
    CASE f = "vix" -> fred_api_key
      [] f = "msci" -> twelvedata_api_key
      [] OTHER -> PyStr("-")

----------------------------------------------------------------------------
(* st.cache_data(ttl=43200), lines 24, 40, 63, 91: one entry per fetcher   *)
(* (the fetchers take no arguments).  An entry holds the returned frame,   *)
(* the st.warning recorded while the function ran (replayed on a hit) and  *)
(* the instant it was stored; it is expired once now >= created + ttl.     *)

NoEntry == [present |-> FALSE, df |-> <<>>, warned |-> FALSE, created |-> 0]

CacheHit_forever(f) == cache[f].present

CacheHit(f) == cache[f].present /\ now < cache[f].created + TTL

Element(kind, of, value, delta) == [kind |-> kind, of |-> of, value |-> value, delta |-> delta]

FetchWarning(f) == Element("fetch_warning", f, PyNone, PyNone)

NoParams == [sent |-> FALSE, api_key |-> PyNone, observation_start |-> 0]

(* the params of the request a fetcher sends (only get_vix_data's are kept) *)
ParamsSent(f) ==
    IF f = "vix"
    THEN [sent |-> TRUE, api_key |-> fred_api_key, observation_start |-> start_date]
    ELSE vix_params

NoAnswer == [fetcher |-> "", kind |-> "", haskey |-> FALSE, rows |-> <<>>]

Answer(f, r) == [fetcher |-> f, kind |-> r.kind, haskey |-> r.haskey, rows |-> r.rows]

LoadLine(f) ==
    CASE f = "btc" -> 105
      [] f = "vix" -> 106
      [] f = "msci" -> 107
      [] f = "fgi" -> 108

(* A call f() of a cached fetcher; df is the frame the call returns.       *)
(* On a miss the body runs: one requests.get, answered by r.               *)
CallCached(f, df, next) ==
    \/ /\ CacheHit(f)
       /\ df = cache[f].df
       /\ ui' = IF cache[f].warned THEN Append(ui, FetchWarning(f)) ELSE ui
       /\ pc' = next
       /\ UNCHANGED <<cache, reqs, vix_params, answer, raised_line>>
    \/ /\ ~CacheHit(f)
       /\ \E r \in Responses(f, Credential(f)) :
            LET out == Fetch(f, r) IN
            /\ reqs' = [reqs EXCEPT ![f] = @ + 1]
            /\ vix_params' = ParamsSent(f)
            /\ answer' = Answer(f, r)
            /\ IF out.raised
               THEN /\ df = <<>>
                    /\ pc' = "raised"
                    /\ raised_line' = LoadLine(f)
                    /\ UNCHANGED <<cache, ui>>
               ELSE /\ df = out.df
                    /\ cache' = [cache EXCEPT ![f] =
                                    [present |-> TRUE, df |-> out.df,
                                     warned |-> out.warned, created |-> now]]
                    /\ ui' = IF out.warned THEN Append(ui, FetchWarning(f)) ELSE ui
                    /\ pc' = next
                    /\ UNCHANGED raised_line

----------------------------------------------------------------------------
(* Lines 12-19, the prelude of every run *)

(* line 12 *)
StartDateRaw(t) == t - Days(LOOKBACK_DAYS)

(* line 14 *)
StartDate_max(raw, t) == DateOf(Max(raw, t))

StartDate(raw, t) == DateOf(Min(raw, t))

startupVars == <<env, start_date_raw, today, start_date, twelvedata_api_key, fred_api_key>>
frameVars == <<btc_data, vix_data, msci_data, fgi_df>>
fgiVars == <<crypto_fgi, crypto_fgi_prev>>
scoreVars == <<score_val, score_label>>
vixVars == <<vix_arg, vix_sentiment>>
sliderVars == <<day_range, start_display_date>>
netVars == <<cache, reqs, vix_params, answer>>

(* the names a run has not bound yet *)
Unbound ==
    /\ btc_data = <<>> /\ vix_data = <<>> /\ msci_data = <<>> /\ fgi_df = <<>>
    /\ crypto_fgi = PyNone /\ crypto_fgi_prev = PyNone
    /\ start_display_date = 0
    /\ score_val = PyNone /\ score_label = ""
    /\ vix_arg = PyNone /\ vix_sentiment = ""
    /\ ui = <<>>
    /\ raised_line = 0
    /\ reqs = [f \in Fetchers |-> 0]
    /\ vix_params = NoParams
    /\ answer = NoAnswer

Credentials == {PyNone, PyStr("key")}

Environments == [TWELVEDATA_API_KEY : Credentials, FRED_API_KEY : Credentials]

(* line 12 *)
ReadStartDateRaw ==
    /\ pc = "l12"
    /\ start_date_raw' = StartDateRaw(now)
    /\ pc' = "l13"
    /\ UNCHANGED <<raised_line, now, env, today, start_date, twelvedata_api_key,
                   fred_api_key, netVars, frameVars, fgiVars, sliderVars,
                   scoreVars, vixVars, ui>>

(* lines 13-14; the clock may have moved since line 12 *)
ReadToday ==
    /\ pc = "l13"
    /\ \E dt \in {0, 1} :
         /\ now' = now + dt
         /\ today' = now + dt
         /\ start_date' = StartDate(start_date_raw, now + dt)
    /\ pc' = "l18"
    /\ UNCHANGED <<raised_line, env, start_date_raw, twelvedata_api_key,
                   fred_api_key, netVars, frameVars, fgiVars, sliderVars,
                   scoreVars, vixVars, ui>>

(* line 18: the module os has no attribute gentev, so the attribute lookup *)
(* raises AttributeError before either environment variable is read; line  *)
(* 19 and the rest of the file are not executed.                           *)
ReadKeys ==
    /\ pc = "l18"
    /\ pc' = "raised"
    /\ raised_line' = 18
    /\ UNCHANGED <<now, env, start_date_raw, today, start_date, twelvedata_api_key,
                   fred_api_key, netVars, frameVars, fgiVars, sliderVars,
                   scoreVars, vixVars, ui>>

(* a page load starts the script again *)
Reload ==
    /\ pc = "raised"
    /\ raised_line = 18
    /\ now < T0 + StartupHours * 3600 + MaxTicks * TickStep
    /\ now' = now + TickStep
    /\ pc' = "l12"
    /\ raised_line' = 0
    /\ UNCHANGED <<env, start_date_raw, today, start_date, twelvedata_api_key,
                   fred_api_key, netVars, frameVars, fgiVars, sliderVars,
                   scoreVars, vixVars, ui>>

InitStartup ==
    /\ pc = "l12"
    /\ now \in {T0 + h * 3600 : h \in 0..StartupHours}
    /\ env \in Environments
    /\ start_date_raw = 0 /\ today = 0 /\ start_date = 0
    /\ twelvedata_api_key = PyNone /\ fred_api_key = PyNone
    /\ cache = [f \in Fetchers |-> NoEntry]
    /\ day_range = SLIDER_DEFAULT
    /\ Unbound

NextStartup == ReadStartDateRaw \/ ReadToday \/ ReadKeys \/ Reload

SpecStartup == InitStartup /\ [][NextStartup]_vars

----------------------------------------------------------------------------
(* Lines 104-111: load data *)

LoadBtc ==
    /\ pc = "l105"
    /\ CallCached("btc", btc_data', "l106")
    /\ UNCHANGED <<now, startupVars, vix_data, msci_data, fgi_df, fgiVars,
                   sliderVars, scoreVars, vixVars>>

LoadVix ==
    /\ pc = "l106"
    /\ CallCached("vix", vix_data', "l107")
    /\ UNCHANGED <<now, startupVars, btc_data, msci_data, fgi_df, fgiVars,
                   sliderVars, scoreVars, vixVars>>

LoadMsci ==
    /\ pc = "l107"
    /\ CallCached("msci", msci_data', "l108")
    /\ UNCHANGED <<now, startupVars, btc_data, vix_data, fgi_df, fgiVars,
                   sliderVars, scoreVars, vixVars>>

LoadFgi ==
    /\ pc = "l108"
    /\ CallCached("fgi", fgi_df', "l110")
    /\ UNCHANGED <<now, startupVars, btc_data, vix_data, msci_data, fgiVars,
                   sliderVars, scoreVars, vixVars>>

(* line 110 *)
Latest(df) == IF df /= <<>> THEN df[Len(df)].v ELSE NA

(* line 111 *)
Previous(df) == IF Len(df) > 1 THEN df[Len(df) - 1].v ELSE NA

LatestFgi ==
    /\ pc = "l110"
    /\ crypto_fgi' = Latest(fgi_df)
    /\ crypto_fgi_prev' = Previous(fgi_df)
    /\ pc' = "l139"
    /\ UNCHANGED <<raised_line, now, startupVars, netVars, frameVars, sliderVars,
                   scoreVars, vixVars, ui>>

----------------------------------------------------------------------------
(* Lines 115-133: the classifiers *)

sentiment_score_fgi_inclusive(value) ==
    IF value = NA THEN <<NA, "Neutral">>
    ELSE IF value.i <= FGI_EXTREME_FEAR THEN <<value, "Extreme Fear (Buy Opportunity?)">>
    ELSE IF value.i <= FGI_FEAR THEN <<value, "Fear">>
    ELSE IF value.i <= FGI_GREED THEN <<value, "Greed">>
    ELSE <<value, "Extreme Greed (Caution)">>

sentiment_score_fgi(value) ==
    IF value = NA THEN <<NA, "Neutral">>
    ELSE IF value.i < FGI_EXTREME_FEAR THEN <<value, "Extreme Fear (Buy Opportunity?)">>
    ELSE IF value.i < FGI_FEAR THEN <<value, "Fear">>
    ELSE IF value.i < FGI_GREED THEN <<value, "Greed">>
    ELSE <<value, "Extreme Greed (Caution)">>

(* value < n in Python: False when value is NaN *)
Less(value, n) == value.tag = "int" /\ value.i < n

sentiment_score_vix(value) ==
    IF Less(value, Tenths(VIX_CALM)) THEN "Calm (Low Volatility)"
    ELSE IF Less(value, Tenths(VIX_ELEVATED)) THEN "Elevated Volatility"
    ELSE "High Fear (Risk-Off Mode)"

----------------------------------------------------------------------------
(* Lines 137-143: the slider and the time-window filter *)

Retained_strict(row, cutoff) == row.ts > cutoff

(* lines 140-143: index >= start_display_date *)
Retained(row, cutoff) == row.ts >= cutoff

Window(df, cutoff) == SelectSeq(df, LAMBDA row : Retained(row, cutoff))

(* line 139 *)
StartDisplayDate(t, d) == t - Days(d)

Filter ==
    /\ pc = "l139"
    /\ start_display_date' = StartDisplayDate(now, day_range)
    /\ btc_data' = Window(btc_data, start_display_date')
    /\ vix_data' = Window(vix_data, start_display_date')
    /\ msci_data' = Window(msci_data, start_display_date')
    /\ fgi_df' = Window(fgi_df, start_display_date')
    /\ pc' = "l147"
    /\ UNCHANGED <<raised_line, now, startupVars, netVars, fgiVars, day_range,
                   scoreVars, vixVars, ui>>

----------------------------------------------------------------------------
(* Lines 145-212: layout.  ui collects what the run renders:               *)
(*   metric   st.metric of a series (value, delta),                        *)
(*   write    the evaluation line under a metric,                          *)
(*   chart    st.pyplot of a series,                                       *)
(*   warning  line 179,                                                    *)
(*   fetch_warning  the st.warning of a fetcher's except branch.           *)
(* The number formats of lines 150, 186 and 189 are not modelled: a metric *)
(* carries the number it shows.                                            *)

Shown_always(df) == TRUE

(* "not df.empty", lines 149, 156, 168, 185, 187, 193, 204 *)
Shown(df) == df /= <<>>

(* f"{x}" *)
Str(x) == IF x.tag = "int" THEN PyStr(ToString(x.i)) ELSE x

renderVars == <<raised_line, now, startupVars, netVars, frameVars, fgiVars,
                sliderVars, scoreVars, vixVars>>

(* lines 147-150 *)
BtcMetric ==
    /\ pc = "l147"
    /\ ui' = IF Shown(btc_data)
             THEN Append(ui, Element("metric", "btc", Latest(btc_data), PyNone))
             ELSE ui
    /\ pc' = "l151"
    /\ UNCHANGED renderVars

(* line 151 *)
ScoreFgi ==
    /\ pc = "l151"
    /\ score_val' = sentiment_score_fgi(crypto_fgi)[1]
    /\ score_label' = sentiment_score_fgi(crypto_fgi)[2]
    /\ pc' = "l152"
    /\ UNCHANGED <<raised_line, now, startupVars, netVars, frameVars, fgiVars,
                   sliderVars, vixVars, ui>>

(* line 152: the delta expression raises ValueError when int() is given "N/A" *)
DeltaRaises(val, prev) == val /= NA /\ (IntRaises(val) \/ IntRaises(prev))

Delta(val, prev) ==
    IF val /= NA THEN PyStr(ToString(int(val) - int(prev))) ELSE NA

(* lines 152-153 *)
FgiMetric ==
    /\ pc = "l152"
    /\ IF DeltaRaises(score_val, crypto_fgi_prev)
       THEN /\ pc' = "raised"
            /\ raised_line' = 152
            /\ UNCHANGED ui
       ELSE /\ ui' = ui \o
                 << Element("metric", "fgi", Str(score_val), Delta(score_val, crypto_fgi_prev)),
                    Element("write", "fgi", PyStr(score_label), PyNone) >>
            /\ pc' = "l155"
            /\ UNCHANGED raised_line
    /\ UNCHANGED <<now, startupVars, netVars, frameVars, fgiVars, sliderVars,
                   scoreVars, vixVars>>

(* lines 155-165 *)
BtcChart ==
    /\ pc = "l155"
    /\ ui' = IF Shown(btc_data)
             THEN Append(ui, Element("chart", "btc", PyNone, PyNone))
             ELSE ui
    /\ pc' = "l167"
    /\ UNCHANGED renderVars

(* lines 167-179 *)
FgiChart ==
    /\ pc = "l167"
    /\ ui' = IF Shown(fgi_df)
             THEN Append(ui, Element("chart", "fgi", PyNone, PyNone))
             ELSE Append(ui, Element("warning", "fgi", PyNone, PyNone))
    /\ pc' = "l183"
    /\ UNCHANGED renderVars

(* lines 183-186 *)
MsciMetric ==
    /\ pc = "l183"
    /\ ui' = IF Shown(msci_data)
             THEN Append(ui, Element("metric", "msci", Latest(msci_data), PyNone))
             ELSE ui
    /\ pc' = "l187"
    /\ UNCHANGED renderVars

(* lines 187-190 *)
VixMetric ==
    /\ pc = "l187"
    /\ IF Shown(vix_data)
       THEN /\ vix_arg' = Latest(vix_data)
            /\ vix_sentiment' = sentiment_score_vix(Latest(vix_data))
            /\ ui' = ui \o
                 << Element("metric", "vix", Latest(vix_data), PyNone),
                    Element("write", "vix", PyStr(vix_sentiment'), PyNone) >>
       ELSE UNCHANGED <<vixVars, ui>>
    /\ pc' = "l192"
    /\ UNCHANGED <<raised_line, now, startupVars, netVars, frameVars, fgiVars,
                   sliderVars, scoreVars>>

(* lines 192-201 *)
MsciChart ==
    /\ pc = "l192"
    /\ ui' = IF Shown(msci_data)
             THEN Append(ui, Element("chart", "msci", PyNone, PyNone))
             ELSE ui
    /\ pc' = "l203"
    /\ UNCHANGED renderVars

(* lines 203-212 *)
VixChart ==
    /\ pc = "l203"
    /\ ui' = IF Shown(vix_data)
             THEN Append(ui, Element("chart", "vix", PyNone, PyNone))
             ELSE ui
    /\ pc' = "done"
    /\ UNCHANGED renderVars

----------------------------------------------------------------------------
(* Runs.  A run takes no time; between two runs the clock stands or moves  *)
(* by half a TTL.  A slider move or a page load starts the next run with   *)
(* the slider at d; the cache is kept, every name of the script is bound   *)
(* anew.                                                                   *)

SliderValues == {SLIDER_MIN, SLIDER_MAX}

Rerun(d) ==
    /\ pc \in {"done", "raised"}
    /\ \E dt \in {0, TickStep} :
         /\ now + dt <= Horizon
         /\ now' = now + dt
    /\ day_range' = d
    /\ start_date_raw' = StartDateRaw(now')
    /\ today' = now'
    /\ start_date' = StartDate(start_date_raw', today')
    /\ btc_data' = <<>> /\ vix_data' = <<>> /\ msci_data' = <<>> /\ fgi_df' = <<>>
    /\ crypto_fgi' = PyNone /\ crypto_fgi_prev' = PyNone
    /\ start_display_date' = 0
    /\ score_val' = PyNone /\ score_label' = ""
    /\ vix_arg' = PyNone /\ vix_sentiment' = ""
    /\ ui' = <<>>
    /\ raised_line' = 0
    /\ reqs' = [f \in Fetchers |-> 0]
    /\ vix_params' = NoParams
    /\ answer' = NoAnswer
    /\ pc' = "l105"
    /\ UNCHANGED <<env, twelvedata_api_key, fred_api_key, cache>>

Init ==
    /\ pc = "l105"
    /\ now = T0
    /\ env \in Environments
    /\ start_date_raw = StartDateRaw(now)
    /\ today = now
    /\ start_date = StartDate(start_date_raw, today)
    /\ twelvedata_api_key = env.TWELVEDATA_API_KEY
    /\ fred_api_key = env.FRED_API_KEY
    /\ cache = [f \in Fetchers |-> NoEntry]
    /\ day_range = SLIDER_DEFAULT
    /\ Unbound

Next ==
    \/ LoadBtc \/ LoadVix \/ LoadMsci \/ LoadFgi \/ LatestFgi
    \/ Filter
    \/ BtcMetric \/ ScoreFgi \/ FgiMetric \/ BtcChart \/ FgiChart
    \/ MsciMetric \/ VixMetric \/ MsciChart \/ VixChart
    \/ \E d \in SliderValues : Rerun(d)

Spec == Init /\ [][Next]_vars

----------------------------------------------------------------------------
(* SpecUnit: the filter and sentiment_score_fgi on arbitrary inputs.       *)
(* A filter case is a slider value d in 7..180 and four frames; one of     *)
(* them (the probe) ranges over every frame of at most MaxRows rows dated  *)
(* one second before, at, and one second after the cutoff of d, the other  *)
(* three hold one row before and one row at the cutoff.  cache holds the   *)
(* frames as loaded.  A classifier case is crypto_fgi in -MaxFgi..MaxFgi   *)
(* or "N/A".                                                               *)

ProbeRows(cutoff) == { Raw(cutoff + o, PyInt(1)) : o \in {-1, 0, 1} }

ProbeFrames(cutoff) ==
    UNION { [1..n -> ProbeRows(cutoff)] : n \in 0..MaxRows }

ReferenceFrame(cutoff) == << Raw(cutoff - 1, PyInt(1)), Raw(cutoff, PyInt(1)) >>

Loaded(df) == [present |-> TRUE, df |-> df, warned |-> FALSE, created |-> T0]

InitFilterCase ==
    /\ pc = "l139"
    /\ now = T0
    /\ day_range \in SLIDER_MIN..SLIDER_MAX
    /\ \E probe \in Fetchers :
         \E df \in ProbeFrames(StartDisplayDate(now, day_range)) :
            cache = [f \in Fetchers |->
                        Loaded(IF f = probe THEN df
                               ELSE ReferenceFrame(StartDisplayDate(now, day_range)))]
    /\ btc_data = cache["btc"].df
    /\ vix_data = cache["vix"].df
    /\ msci_data = cache["msci"].df
    /\ fgi_df = cache["fgi"].df
    /\ crypto_fgi = Latest(fgi_df)
    /\ crypto_fgi_prev = Previous(fgi_df)

InitFgiCase ==
    /\ pc = "l151"
    /\ now = T0
    /\ day_range = SLIDER_DEFAULT
    /\ cache = [f \in Fetchers |-> NoEntry]
    /\ btc_data = <<>> /\ vix_data = <<>> /\ msci_data = <<>> /\ fgi_df = <<>>
    /\ crypto_fgi \in {PyInt(v) : v \in (0 - MaxFgi)..MaxFgi} \cup {NA}
    /\ crypto_fgi_prev = NA

InitUnit ==
    /\ env = [TWELVEDATA_API_KEY |-> PyStr("key"), FRED_API_KEY |-> PyStr("key")]
    /\ twelvedata_api_key = env.TWELVEDATA_API_KEY
    /\ fred_api_key = env.FRED_API_KEY
    /\ start_date_raw = StartDateRaw(T0)
    /\ today = T0
    /\ start_date = StartDate(start_date_raw, today)
    /\ start_display_date = 0
    /\ score_val = PyNone /\ score_label = ""
    /\ vix_arg = PyNone /\ vix_sentiment = ""
    /\ ui = <<>>
    /\ raised_line = 0
    /\ reqs = [f \in Fetchers |-> 0]
    /\ vix_params = NoParams
    /\ answer = NoAnswer
    /\ (InitFilterCase \/ InitFgiCase)

(* lines 139-143 once more, on the frames already filtered, with the       *)
(* slider at d                                                             *)
Refilter(d) ==
    /\ pc = "l147"
    /\ d >= day_range
    /\ day_range' = d
    /\ start_display_date' = StartDisplayDate(now, d)
    /\ btc_data' = Window(btc_data, start_display_date')
    /\ vix_data' = Window(vix_data, start_display_date')
    /\ msci_data' = Window(msci_data, start_display_date')
    /\ fgi_df' = Window(fgi_df, start_display_date')
    /\ pc' = "refiltered"
    /\ UNCHANGED <<raised_line, now, startupVars, netVars, fgiVars, scoreVars,
                   vixVars, ui>>

NextUnit ==
    \/ Filter
    \/ \E d \in {day_range, Min(day_range + 1, SLIDER_MAX), SLIDER_MAX} : Refilter(d)
    \/ ScoreFgi

SpecUnit == InitUnit /\ [][NextUnit]_vars

----------------------------------------------------------------------------
(* SpecVix: the runs of Spec, and besides them lines 187-212 started on a   *)
(* volatility frame of one row whose close ranges over 0.0 .. MaxVix/10.    *)
(* The started case ends with its run (only a run that loaded its data is   *)
(* followed by another).                                                    *)

InitVixCase ==
    /\ pc = "l187"
    /\ now = T0
    /\ env = [TWELVEDATA_API_KEY |-> PyStr("key"), FRED_API_KEY |-> PyStr("key")]
    /\ twelvedata_api_key = env.TWELVEDATA_API_KEY
    /\ fred_api_key = env.FRED_API_KEY
    /\ start_date_raw = StartDateRaw(now)
    /\ today = now
    /\ start_date = StartDate(start_date_raw, today)
    /\ day_range = SLIDER_DEFAULT
    /\ start_display_date = StartDisplayDate(now, day_range)
    /\ vix_data \in { <<Raw(MidnightOf(DayNew), PyInt(v))>> : v \in 0..MaxVix }
    /\ cache = [f \in Fetchers |-> IF f = "vix" THEN Loaded(vix_data) ELSE NoEntry]
    /\ btc_data = <<>> /\ msci_data = <<>> /\ fgi_df = <<>>
    /\ crypto_fgi = NA /\ crypto_fgi_prev = NA
    /\ score_val = NA /\ score_label = "Neutral"
    /\ vix_arg = PyNone /\ vix_sentiment = ""
    /\ ui = <<>>
    /\ raised_line = 0
    /\ reqs = [f \in Fetchers |-> 0]
    /\ vix_params = NoParams
    /\ answer = NoAnswer

NextVix ==
    \/ LoadBtc \/ LoadVix \/ LoadMsci \/ LoadFgi \/ LatestFgi
    \/ Filter
    \/ BtcMetric \/ ScoreFgi \/ FgiMetric \/ BtcChart \/ FgiChart
    \/ MsciMetric \/ VixMetric \/ MsciChart \/ VixChart
    \/ \E d \in SliderValues : cache["fgi"].present /\ Rerun(d)

SpecVix == (Init \/ InitVixCase) /\ [][NextVix]_vars

----------------------------------------------------------------------------
(* Properties *)

Frame(f) ==
    CASE f = "btc" -> btc_data
      [] f = "vix" -> vix_data
      [] f = "msci" -> msci_data
      [] f = "fgi" -> fgi_df

LoadPc(f) ==
    CASE f = "btc" -> "l105"
      [] f = "vix" -> "l106"
      [] f = "msci" -> "l107"
      [] f = "fgi" -> "l108"

AfterLoadPc(f) ==
    CASE f = "btc" -> "l106"
      [] f = "vix" -> "l107"
      [] f = "msci" -> "l108"
      [] f = "fgi" -> "l110"

Rendered(kind, of) == \E i \in 1..Len(ui) : ui[i].kind = kind /\ ui[i].of = of

Count(kind, of) == Cardinality({i \in 1..Len(ui) : ui[i].kind = kind /\ ui[i].of = of})

(* the run has executed line 152 and gone on *)
PastFgiMetric == pc \in {"l155", "l167", "l183", "l187", "l192", "l203", "done"}

(* the run has executed lines 167-179 *)
PastFgiChart == pc \in {"l183", "l187", "l192", "l203", "done"}

(* a transport error, a non-success status, an unparsable body, a missing  *)
(* key, or a sentiment value that is no integer                            *)
IsFailure(a) ==
    \/ a.kind \in {"transport", "status", "badjson"}
    \/ a.kind = "ok" /\ ~a.haskey
    \/ /\ a.kind = "ok" /\ a.fetcher = "fgi"
       /\ \E i \in 1..Len(a.rows) : a.rows[i].v.s \notin {"20", "24", "25", "40", "55", "75", "80"}

C1_FailingCall ==
    \A f \in Fetchers :
        (pc = LoadPc(f) /\ reqs'[f] = reqs[f] + 1 /\ IsFailure(answer'))
        => /\ Count("fetch_warning", f)' = Count("fetch_warning", f) + 1
           /\ Frame(f)' = <<>>
           /\ pc' = AfterLoadPc(f)
           /\ raised_line' = 0

(* C1: whenever the request of a fetcher fails (transport error, non-success *)
(* status, unparsable body, missing key, malformed sentiment value), the     *)
(* call emits exactly one warning, returns a frame of zero rows, and the run *)
(* goes on with the next statement; and no run ever dies of a failed fetch:  *)
(* a run that raises does so at line 152 with a sentiment frame of one row.  *)
C1_FetchersDegradeToEmpty ==
    /\ [](pc = "raised" => raised_line = 152 /\ Len(cache["fgi"].df) = 1)
    /\ [][C1_FailingCall]_vars

(* the price fetch failed in this run, and the run reached its end with the *)
(* sentiment chart drawn                                                    *)
C1_Witness ==
    /\ pc = "done"
    /\ reqs["btc"] = 1
    /\ Count("fetch_warning", "btc") = 1
    /\ cache["btc"].df = <<>>
    /\ Rendered("chart", "fgi")

ExpectedDelta(df) ==
    IF Len(df) >= 2
    THEN PyStr(ToString(df[Len(df)].v.i - df[Len(df) - 1].v.i))
    ELSE NA

(* C2: the delta of the sentiment metric is latest - previous when the       *)
(* loaded sentiment frame has two rows or more and "N/A" when it has fewer,  *)
(* and line 152 never raises.                                                *)
C2_DeltaNeverRaises ==
    /\ ~(pc = "raised" /\ raised_line = 152)
    /\ \A i \in 1..Len(ui) :
          (ui[i].kind = "metric" /\ ui[i].of = "fgi")
          => ui[i].delta = ExpectedDelta(cache["fgi"].df)

(* C3 as stated: an empty frame has neither a metric nor a chart, for all   *)
(* four series, and the empty sentiment frame has the warning of line 179.   *)
C3_EmptySeriesFullySkipped ==
    /\ \A f \in Fetchers :
          Frame(f) = <<>> => ~Rendered("metric", f) /\ ~Rendered("chart", f)
    /\ (fgi_df = <<>> /\ PastFgiChart) => Rendered("warning", "fgi")

(* C3 amended: an empty price, volatility or equity-proxy frame has neither *)
(* a metric nor a chart; an empty sentiment frame has no chart, and the      *)
(* warning of line 179 once the run is past it; the sentiment metric is not  *)
(* skipped: when the loaded sentiment frame is empty it is rendered with     *)
(* value "N/A" and delta "N/A".                                              *)
C3_EmptySeriesSkippedExceptFgiMetric ==
    /\ \A f \in {"btc", "vix", "msci"} :
          Frame(f) = <<>> => ~Rendered("metric", f) /\ ~Rendered("chart", f)
    /\ fgi_df = <<>> => ~Rendered("chart", "fgi")
    /\ (fgi_df = <<>> /\ PastFgiChart) => Rendered("warning", "fgi")
    /\ (cache["fgi"].df = <<>> /\ PastFgiMetric)
          => \E i \in 1..Len(ui) :
                ui[i] = Element("metric", "fgi", NA, NA)

(* a finished run whose price frame was filtered to nothing and whose       *)
(* sentiment fetch returned nothing                                         *)
C3_Witness ==
    /\ pc = "done"
    /\ cache["btc"].df /= <<>> /\ btc_data = <<>>
    /\ cache["fgi"].df = <<>>
    /\ Rendered("warning", "fgi")
    /\ Rendered("metric", "fgi")
    /\ ~Rendered("chart", "btc")


C4_Call ==
    \A f \in Fetchers :
        (pc = LoadPc(f) /\ pc' /= pc)
        => /\ IF cache[f].present /\ now - cache[f].created < 43200
              THEN /\ reqs'[f] = reqs[f]
                   /\ cache'[f] = cache[f]
                   /\ Frame(f)' = cache[f].df
              ELSE /\ reqs'[f] = reqs[f] + 1
                   /\ cache'[f].present
                   /\ cache'[f].created = now
                   /\ cache'[f].df = Frame(f)'
           /\ \A g \in Fetchers \ {f} : cache'[g] = cache[g] /\ reqs'[g] = reqs[g]

C4_NoOtherAccess ==
    (pc \notin {"l105", "l106", "l107", "l108"}) => cache' = cache

(* C4: a call of a fetcher whose entry is younger than 43200 s makes no     *)
(* request, returns the entry's frame and leaves the entry alone (be it a   *)
(* success or the empty frame of a failure); a call with no entry or an     *)
(* expired one makes exactly one request and stores the frame it returns as *)
(* a new entry dated now; no fetcher makes more than one request in a run;  *)
(* nothing else touches the cache.                                          *)
C4_OneRequestPerMiss ==
    /\ [](\A f \in Fetchers : reqs[f] <= 1)
    /\ [][C4_Call /\ C4_NoOtherAccess]_vars

(* a hit on a cached failure, in an entry that replaced an expired one *)
C4_Witness ==
    /\ pc = "l106"
    /\ reqs["btc"] = 0
    /\ cache["btc"].created = T0 + 43200
    /\ now > cache["btc"].created
    /\ cache["btc"].warned
    /\ btc_data = <<>>
    /\ Count("fetch_warning", "btc") = 1

(* df holds exactly the rows of orig dated cutoff or later, in orig's order *)
ExactWindow(orig, df, cutoff) ==
    LET K == {i \in 1..Len(orig) : orig[i].ts >= cutoff} IN
    /\ Len(df) = Cardinality(K)
    /\ \A i \in K : df[Cardinality({k \in K : k <= i})] = orig[i]

(* C5: for every slider value d in 7..180 the filter leaves in each of the  *)
(* four frames exactly the loaded rows dated now - d days or later (an      *)
(* empty frame stays empty), and filtering the result again with the same   *)
(* or a larger d changes none of the four frames.                           *)
C5_FilterExactAndIdempotent ==
    /\ [](pc = "l147" =>
            \A f \in Fetchers :
               /\ ExactWindow(cache[f].df, Frame(f), now - day_range * 86400)
               /\ cache[f].df = <<>> => Frame(f) = <<>>)
    /\ [][(pc = "l147" /\ pc' = "refiltered") =>
            \A f \in Fetchers : Frame(f)' = Frame(f)]_vars

(* filtered with d = 7 (one row dropped, the row at the cutoff kept), then  *)
(* filtered again with d = 180                                              *)
C5_Witness ==
    /\ pc = "refiltered"
    /\ day_range = 180
    /\ Len(cache["btc"].df) = 2
    /\ Len(btc_data) = 1
    /\ btc_data[1].ts = now - 7 * 86400
    /\ cache["vix"].df = <<>> /\ vix_data = <<>>

ClaimedFgiLabel(v) ==
    IF v < 25 THEN "Extreme Fear (Buy Opportunity?)"
    ELSE IF v < 50 THEN "Fear"
    ELSE IF v < 75 THEN "Greed"
    ELSE "Extreme Greed (Caution)"

(* C6: sentiment_score_fgi returns its integer argument with the label of   *)
(* the band the argument lies in (<25, [25,50), [50,75), >=75), and returns *)
(* "N/A" with the neutral label for "N/A".                                  *)
C6_FgiBands ==
    pc = "l152" =>
        IF crypto_fgi = NA
        THEN score_val = NA /\ score_label = "Neutral"
        ELSE score_val = crypto_fgi /\ score_label = ClaimedFgiLabel(crypto_fgi.i)

C6_Witness ==
    /\ pc = "l152"
    /\ crypto_fgi = PyInt(25)
    /\ score_val = PyInt(25)
    /\ score_label = "Fear"

ClaimedVixLabel(tenths) ==
    IF tenths < 150 THEN "Calm (Low Volatility)"
    ELSE IF tenths < 250 THEN "Elevated Volatility"
    ELSE "High Fear (Risk-Off Mode)"

(* C7: sentiment_score_vix is only ever called with a number, the latest    *)
(* close of a non-empty volatility frame, and labels it by the bands <15,   *)
(* [15,25), >=25; a run that did not call it had an empty frame.            *)
C7_VixBandsOnNumbers ==
    /\ vix_arg /= PyNone =>
          /\ vix_arg.tag = "int"
          /\ vix_data /= <<>>
          /\ vix_arg = vix_data[Len(vix_data)].v
          /\ vix_sentiment = ClaimedVixLabel(vix_arg.i)
    /\ (vix_arg = PyNone /\ pc \in {"l192", "l203", "done"}) => vix_data = <<>>

(* the endpoint sent 25 and then a missing value; the missing row was       *)
(* dropped and 25 was classified                                            *)
C7_Witness ==
    /\ pc = "done"
    /\ reqs["vix"] = 1
    /\ Len(cache["vix"].df) = 1
    /\ cache["vix"].df[1].ts = MidnightOf(DayOld)
    /\ vix_arg = PyInt(250)
    /\ vix_sentiment = "High Fear (Risk-Off Mode)"

(* C8: the prelude completes: no run dies in lines 12-19. *)
C8_StartupCompletes == ~(pc = "raised" /\ raised_line \in 12..19)

(* C9 as stated: the observation_start sent is the day of                   *)
(* max(today - 180 days, today).                                            *)
C9_StartIsMax ==
    vix_params.sent =>
        /\ vix_params.observation_start = DateOf(Max(today - 180 * 86400, today))
        /\ vix_params.observation_start <= DateOf(now)

(* C9 amended: the observation_start sent is the day of                     *)
(* min(today - 180 days, today), that is of today - 180 days, and is never  *)
(* a day in the future.                                                     *)
C9_StartIsLookback ==
    vix_params.sent =>
        /\ vix_params.observation_start = DateOf(today - 180 * 86400)
        /\ vix_params.observation_start <= DateOf(now)

C9_Witness ==
    /\ pc = "l107"
    /\ reqs["vix"] = 1
    /\ vix_params.sent
    /\ vix_params.observation_start = DateOf(T0) - 180

(* C10: no frame a fetcher returned holds a NaN (null) value. *)
C10_NoNullRows ==
    \A f \in Fetchers :
        \A i \in 1..Len(cache[f].df) : cache[f].df[i].v.tag /= "nan"

====
